---- MODULE Spec2Model ----
(***************************************************************************)
(* Graph minors (networkx/algorithms/minors.py): equivalence_classes,      *)
(* quotient_graph, contracted_nodes, contracted_edge and blockmodel,       *)
(* over a heap of graph objects.                                           *)
(*                                                                         *)
(* A graph object is a record                                              *)
(*   [directed, multigraph, ntype, node, edges]                            *)
(* node  : the G.node dictionary, node identifier -> attribute dictionary  *)
(* edges : the adjacency structure as a set of [u, v, key, data]; an       *)
(*         undirected edge is held in both orientations (adj[u][v] and     *)
(*         adj[v][u] are the same dictionary), a self-loop once; key is 0  *)
(*         in a simple graph.                                              *)
(* ntype : the Python type of the node identifiers, "int" or "block"       *)
(*         (frozenset); only graphs over ints are passed to further calls. *)
(* A Python dict is a function; attribute dictionaries have string keys.   *)
(***************************************************************************)
EXTENDS Integers, Sequences, FiniteSets, TLC

\* Bounds of the model.
MaxNodes == 3
MaxEdges == 2
MaxWeight == 2
MaxBlocks == 2
MaxCalls == 2
MaxLen == 4

Nodes == 0..(MaxNodes - 1)

EmptyDict == << >>

\* dict.update: d1 updated with the items of d2.
DictUpdate(d1, d2) ==
  [k \in (DOMAIN d1) \cup (DOMAIN d2) |-> IF k \in DOMAIN d2 THEN d2[k] ELSE d1[k]]

\* d with d[k] = val set.
DictSet(d, k, val) ==
  [x \in (DOMAIN d) \cup {k} |-> IF x = k THEN val ELSE d[x]]

\* The string form of a multigraph edge key, so that a key dictionary
\* {key: attribute dictionary} has string keys like every other dictionary.
KeyName(k) == <<"0", "1", "2", "3", "4", "5", "6", "7">>[k + 1]

(***************************************************************************)
(* The Graph classes of networkx 1.11 (graph.py, digraph.py,               *)
(* multigraph.py, multidigraph.py), as far as minors.py uses them.         *)
(***************************************************************************)

\* type(G)(): an empty graph of the given class.
EmptyGraph(directed, multigraph, ntype) ==
  [directed |-> directed, multigraph |-> multigraph, ntype |-> ntype,
   node |-> EmptyDict, edges |-> {}]

NodesOf(G) == DOMAIN G.node

\* G[u], the neighbours (successors) of u, as a set.
Neighbors(G, u) == {e.v : e \in {f \in G.edges : f.u = u}}

has_edge(G, u, v) == \E e \in G.edges : e.u = u /\ e.v = v

\* G.add_node(n, attr): a new node gets attr, an old one is updated.
add_node(G, n, attr) ==
  [G EXCEPT !.node = IF n \in DOMAIN G.node
                     THEN [G.node EXCEPT ![n] = DictUpdate(@, attr)]
                     ELSE DictSet(G.node, n, attr)]

\* The keys in use between u and v.
KeysOf(G, u, v) == {e.key : e \in {f \in G.edges : f.u = u /\ f.v = v}}

\* MultiGraph.add_edge with key=None: key = len(keydict), then the next
\* free integer.
RECURSIVE FreeKey(_, _)
FreeKey(used, k) == IF k \in used THEN FreeKey(used, k + 1) ELSE k

NewKey(G, u, v) == FreeKey(KeysOf(G, u, v), Cardinality(KeysOf(G, u, v)))

\* Both orientations of an edge of an undirected graph, one of a directed.
Orient(G, u, v, key, data) ==
  IF G.directed
  THEN {[u |-> u, v |-> v, key |-> key, data |-> data]}
  ELSE {[u |-> u, v |-> v, key |-> key, data |-> data],
        [u |-> v, v |-> u, key |-> key, data |-> data]}

\* G.add_edge(u, v, attr_dict=data): the endpoints are added when missing;
\* a simple graph updates the data of an edge it already has, a multigraph
\* adds a parallel edge under a new key.
add_edge(G, u, v, data) ==
  LET G1 == IF u \in DOMAIN G.node THEN G ELSE add_node(G, u, EmptyDict)
      G2 == IF v \in DOMAIN G1.node THEN G1 ELSE add_node(G1, v, EmptyDict)
  IN IF G.multigraph
     THEN [G2 EXCEPT !.edges = @ \cup Orient(G, u, v, NewKey(G, u, v), data)]
     ELSE LET old == {e \in G.edges : e.u = u /\ e.v = v}
              base == IF old = {} THEN EmptyDict ELSE (CHOOSE e \in old : TRUE).data
              gone == {e \in G.edges : (e.u = u /\ e.v = v)
                                       \/ (~G.directed /\ e.u = v /\ e.v = u)}
          IN [G2 EXCEPT !.edges = (@ \ gone)
                                  \cup Orient(G, u, v, 0, DictUpdate(base, data))]

\* G.add_edges_from(ebunch) for a sequence of <<u, v, data>>.
RECURSIVE add_edges_from(_, _)
add_edges_from(G, ebunch) ==
  IF ebunch = << >> THEN G
  ELSE add_edges_from(add_edge(G, ebunch[1][1], ebunch[1][2], ebunch[1][3]),
                      Tail(ebunch))

\* G.add_nodes_from(nbunch) for a sequence of <<n, attr>>.
RECURSIVE add_nodes_from(_, _)
add_nodes_from(G, nbunch) ==
  IF nbunch = << >> THEN G
  ELSE add_nodes_from(add_node(G, nbunch[1][1], nbunch[1][2]), Tail(nbunch))

\* G.remove_node(n): the node and every edge at it.
remove_node(G, n) ==
  [G EXCEPT !.node = [x \in (DOMAIN G.node) \ {n} |-> G.node[x]],
            !.edges = {e \in G.edges : e.u # n /\ e.v # n}]

\* G.get_edge_data(u, v, default): the attribute dictionary of the edge in
\* a simple graph, the dictionary key -> attribute dictionary in a
\* multigraph.
get_edge_data(G, u, v, default) ==
  LET es == {e \in G.edges : e.u = u /\ e.v = v}
  IN IF es = {} THEN default
     ELSE IF G.multigraph
          THEN LET names == {KeyName(e.key) : e \in es}
               IN [k \in names |-> (CHOOSE e \in es : KeyName(e.key) = k).data]
          ELSE (CHOOSE e \in es : TRUE).data

\* A set of integers as the ascending sequence in which Python iterates a
\* set or dictionary of small integers.
RECURSIVE SortedSeq(_)
SortedSeq(S) ==
  IF S = {} THEN << >>
  ELSE LET m == CHOOSE x \in S : \A y \in S : x <= y
       IN <<m>> \o SortedSeq(S \ {m})

EdgeBefore(e, f) ==
  \/ e.u < f.u
  \/ e.u = f.u /\ e.v < f.v
  \/ e.u = f.u /\ e.v = f.v /\ e.key < f.key

\* A set of edges in iteration order: by node, neighbour and key.
RECURSIVE EdgeSeq(_)
EdgeSeq(S) ==
  IF S = {} THEN << >>
  ELSE LET m == CHOOSE e \in S : \A f \in S : e = f \/ EdgeBefore(e, f)
       IN <<m>> \o EdgeSeq(S \ {m})

\* G.out_edges(v, data=True), and G.edges(v, data=True) of an undirected
\* graph: every edge (v, w, d) stored at v.
out_edges(G, v) == EdgeSeq({e \in G.edges : e.u = v})

\* G.in_edges(v, data=True): every edge (w, v, d).
in_edges(G, v) == EdgeSeq({e \in G.edges : e.v = v})

\* Each edge of G once: G.edges() reports an undirected edge from the
\* endpoint it meets first.
EdgesOnce(G) == IF G.directed THEN G.edges ELSE {e \in G.edges : e.u <= e.v}

\* G.edges(nbunch, data=True) as a set: the edges leaving nbunch in a
\* directed graph, the edges with an endpoint in nbunch otherwise, each
\* once.  The orientation of an undirected edge is not kept; the one caller
\* filters it symmetrically.
edges_nbunch(G, nbunch) ==
  {e \in EdgesOnce(G) : IF G.directed THEN e.u \in nbunch
                        ELSE e.u \in nbunch \/ e.v \in nbunch}

\* G.number_of_edges().
number_of_edges(G) == Cardinality(EdgesOnce(G))

\* G.subgraph(nbunch): the induced subgraph, of the class of G; nodes of
\* nbunch that are not in G are ignored.
subgraph(G, nbunch) ==
  LET keep == nbunch \cap DOMAIN G.node
  IN [G EXCEPT !.node = [n \in keep |-> G.node[n]],
               !.edges = {e \in G.edges : e.u \in keep /\ e.v \in keep}]

\* networkx.density(G) as the fraction <<numerator, denominator>>.
density(G) ==
  LET n == Cardinality(DOMAIN G.node)
      m == number_of_edges(G)
  IN IF m = 0 \/ n <= 1 THEN <<0, 1>>
     ELSE IF G.directed THEN <<m, n * (n - 1)>>
          ELSE <<2 * m, n * (n - 1)>>

\* H = G.copy() for the graph object at g: a deep copy, a new object at
\* the end of the heap, equal to G in every part and sharing none with it.
copy(heap, g) == Append(heap, heap[g])

\* First occurrences of a sequence, in order.
RECURSIVE Dedup(_)
Dedup(s) ==
  IF s = << >> THEN << >>
  ELSE LET r == Dedup(SubSeq(s, 1, Len(s) - 1))
           x == s[Len(s)]
       IN IF \E i \in 1..Len(r) : r[i] = x THEN r ELSE Append(r, x)

\* networkx.relabel_nodes(H, labels) with labels defined on every node and
\* one to one: a new graph over the labels, with the data and keys of H.
relabel_nodes(H, labels) ==
  LET img == {labels[b] : b \in DOMAIN H.node}
      inv(i) == CHOOSE b \in DOMAIN H.node : labels[b] = i
  IN [H EXCEPT !.ntype = "int",
               !.node = [i \in img |-> H.node[inv(i)]],
               !.edges = {[u |-> labels[e.u], v |-> labels[e.v],
                           key |-> e.key, data |-> e.data] : e \in H.edges}]

(***************************************************************************)
(* minors.py                                                               *)
(***************************************************************************)

Range(s) == {s[i] : i \in DOMAIN s}

\* The loop body without its break: the else branch of the for loop runs
\* after a match too.
RECURSIVE PlaceNoBreak(_, _, _, _)
PlaceNoBreak(blocks, i, y, relation) ==
  IF i > Len(blocks) THEN Append(blocks, <<y>>)
  ELSE IF <<blocks[i][1], y>> \in relation
       THEN Append([blocks EXCEPT ![i] = Append(@, y)], <<y>>)
       ELSE PlaceNoBreak(blocks, i + 1, y, relation)

\* The body of "for y in iterable" from block i on: y joins the first block
\* whose arbitrary_element (its first) is related to it, or starts a block.
RECURSIVE Place(_, _, _, _)
Place(blocks, i, y, relation) ==
  IF i > Len(blocks) THEN Append(blocks, <<y>>)
  ELSE IF <<blocks[i][1], y>> \in relation
       THEN [blocks EXCEPT ![i] = Append(@, y)]
       ELSE Place(blocks, i + 1, y, relation)

\* The list of lists built by the loop over the iterable.
RECURSIVE ClassBlocks(_, _)
ClassBlocks(iterable, relation) ==
  IF iterable = << >> THEN << >>
  ELSE Place(ClassBlocks(SubSeq(iterable, 1, Len(iterable) - 1), relation),
             1, iterable[Len(iterable)], relation)

\* equivalence_classes(iterable, relation); relation is the set of pairs
\* on which the Boolean function is true.
equivalence_classes(iterable, relation) ==
  {Range(block) : block \in Range(ClassBlocks(iterable, relation))}

\* Sample callables for the optional function arguments of quotient_graph;
\* "None" stands for an argument left out.
EdgeRelationArgs == {"None", "all"}
NodeDataArgs == {"None", "size"}
EdgeDataArgs == {"None", "const"}

\* The default edge_relation, any(v in G[u] for u, v in product(b, c)):
\* "true" at the first u with a neighbour in c, "error" (KeyError from
\* G[u]) at a u that is not a node of G when it comes first.
DefaultEdgeRelation(G, b, c) ==
  LET bad == {u \in b : u \notin NodesOf(G)}
      hit == {u \in b : u \in NodesOf(G) /\ Neighbors(G, u) \cap c # {}}
  IN IF c = {} \/ bad \cup hit = {} THEN "false"
     ELSE IF (CHOOSE m \in bad \cup hit : \A x \in bad \cup hit : m <= x) \in hit
          THEN "true" ELSE "error"

\* edge_relation(b, c).
EdgeRelation(G, edge_relation, b, c) ==
  IF edge_relation = "None" THEN DefaultEdgeRelation(G, b, c) ELSE "true"

\* d.get('weight', 1).
WeightOf(d) == IF "weight" \in DOMAIN d THEN d.weight ELSE 1

RECURSIVE SumWeights(_)
SumWeights(es) ==
  IF es = {} THEN 0
  ELSE LET e == CHOOSE x \in es : TRUE
       IN WeightOf(e.data) + SumWeights(es \ {e})

\* The default edge_data: the weights of the edges of G.edges(b | c)
\* that cross between b and c, summed.
DefaultEdgeData(G, b, c) ==
  [weight |-> SumWeights({e \in edges_nbunch(G, b \cup c) :
                            \/ e.u \in b /\ e.v \in c
                            \/ e.u \in c /\ e.v \in b})]

\* edge_data(b, c).
EdgeData(G, edge_data, b, c) ==
  IF edge_data = "None" THEN DefaultEdgeData(G, b, c) ELSE [weight |-> 0]

\* node_data(b); the default describes the subgraph of the block.
NodeData(G, node_data, b) ==
  IF node_data = "None"
  THEN LET S == subgraph(G, b)
       IN [graph |-> S, nnodes |-> Cardinality(NodesOf(S)),
           nedges |-> number_of_edges(S), density |-> density(S)]
  ELSE [size |-> Cardinality(b)]

\* permutations(H, 2) or combinations(H, 2) over the nodes of H in their
\* order of insertion, as pairs of positions.
BlockPairs(n, directed) ==
  LET perms == [k \in 1..(n * (n - 1)) |->
                  LET i == (k - 1) \div (n - 1)
                      j == (k - 1) % (n - 1)
                  IN <<i + 1, IF j < i THEN j + 1 ELSE j + 2>>]
      Ordered(p) == p[1] < p[2]
  IN IF directed THEN perms ELSE SelectSeq(perms, Ordered)

\* The edges a multigraph H gets for the pair (b, c): one for each
\* (u, v) of product(b, c) with v in G[u].
RECURSIVE MultiEdges(_, _, _, _)
MultiEdges(G, b, c, uv) ==
  IF uv = << >> THEN << >>
  ELSE (IF uv[1][2] \in Neighbors(G, uv[1][1])
        THEN <<<<b, c, get_edge_data(G, uv[1][1], uv[1][2], EmptyDict)>>>>
        ELSE << >>) \o MultiEdges(G, b, c, Tail(uv))

\* product(b, c) in iteration order.
Product(b, c) ==
  LET sb == SortedSeq(b)
      sc == SortedSeq(c)
  IN [k \in 1..(Len(sb) * Len(sc)) |->
        <<sb[((k - 1) \div Len(sc)) + 1], sc[((k - 1) % Len(sc)) + 1]>>]

\* The generator "edges" handed to H.add_edges_from, for the block pairs
\* from position k on.
RECURSIVE QuotientEdges(_, _, _, _, _, _, _)
QuotientEdges(G, multigraph, order, pairs, k, edge_relation, edge_data) ==
  IF k > Len(pairs) THEN << >>
  ELSE LET b == order[pairs[k][1]]
           c == order[pairs[k][2]]
           here == IF EdgeRelation(G, edge_relation, b, c) # "true" THEN << >>
                   ELSE IF multigraph
                        THEN MultiEdges(G, b, c, Product(b, c))
                        ELSE <<<<b, c, EdgeData(G, edge_data, b, c)>>>>
       IN here \o QuotientEdges(G, multigraph, order, pairs, k + 1,
                                edge_relation, edge_data)

\* Whether consuming the generator raises KeyError: G[u] for a u that is
\* no node of G, in the edge relation or in the multigraph product.
QuotientKeyError(G, multigraph, order, pairs, edge_relation) ==
  \E k \in 1..Len(pairs) :
    LET b == order[pairs[k][1]]
        c == order[pairs[k][2]]
        r == EdgeRelation(G, edge_relation, b, c)
    IN \/ r = "error"
       \/ /\ r = "true" /\ multigraph /\ c # {}
          /\ \E u \in b : u \notin NodesOf(G)

\* The check with "== 0" for "!= 1": a node in two blocks passes.
PartitionInvalidMissingOnly(G, partition) ==
  \E v \in NodesOf(G) :
    Cardinality({i \in 1..Len(partition) : v \in partition[i]}) = 0

\* "each node must be in exactly one block".
PartitionInvalid(G, partition) ==
  \E v \in NodesOf(G) :
    Cardinality({i \in 1..Len(partition) : v \in partition[i]}) # 1

\* labels = {b: i for i, b in enumerate(partition)}.
Labels(partition) ==
  [b \in Range(partition) |->
     (CHOOSE i \in 1..Len(partition) :
        partition[i] = b /\ \A j \in 1..Len(partition) : partition[j] = b => j <= i) - 1]

\* The create_using argument: left out, or a graph of some class.
NoGraph == [given |-> FALSE]
GraphOfClass(directed, multigraph) ==
  [given |-> TRUE, directed |-> directed, multigraph |-> multigraph]

\* quotient_graph for a partition given as a list of blocks.  The result
\* is [status, graph].
quotient_graph(G, partition, edge_relation, node_data, edge_data, relabel, create_using) ==
  IF PartitionInvalid(G, partition)
  THEN [status |-> "NetworkXException", graph |-> EmptyDict]
  ELSE
    LET cls == IF create_using.given THEN create_using
               ELSE GraphOfClass(G.directed, G.multigraph)
        H0 == EmptyGraph(cls.directed, cls.multigraph, "block")
        H1 == add_nodes_from(H0, [i \in 1..Len(partition) |->
                 <<partition[i], NodeData(G, node_data, partition[i])>>])
        order == Dedup(partition)
        pairs == BlockPairs(Len(order), H1.directed)
        edges == QuotientEdges(G, H1.multigraph, order, pairs, 1,
                               edge_relation, edge_data)
    IN IF QuotientKeyError(G, H1.multigraph, order, pairs, edge_relation)
       THEN [status |-> "KeyError", graph |-> EmptyDict]
       ELSE LET H2 == add_edges_from(H1, edges)
            IN [status |-> "ok",
                graph |-> IF relabel THEN relabel_nodes(H2, Labels(partition))
                          ELSE H2]

\* blockmodel(G, partition, multigraph).
blockmodel(G, partition, multigraph) ==
  IF multigraph
  THEN quotient_graph(G, partition, "None", "None", "None", TRUE,
                      GraphOfClass(FALSE, TRUE))
  ELSE quotient_graph(G, partition, "None", "None", "None", TRUE, NoGraph)

RECURSIVE Rerouted(_, _, _, _, _)
\* The generator ((w, u, d) or (u, w, d) ... if self_loops or w != u) over
\* a list of edges at v; w is the far end, the source of an in-edge and
\* the target of the others.
Rerouted(es, u, inward, self_loops, k) ==
  IF k > Len(es) THEN << >>
  ELSE LET w == IF inward THEN es[k].u ELSE es[k].v
           e == IF inward THEN <<w, u, es[k].data>> ELSE <<u, w, es[k].data>>
       IN (IF self_loops \/ w # u THEN <<e>> ELSE << >>)
          \o Rerouted(es, u, inward, self_loops, k + 1)

\* new_edges of contracted_nodes.
NewEdges(G, u, v, self_loops) ==
  IF G.directed
  THEN Rerouted(in_edges(G, v), u, TRUE, self_loops, 1)
       \o Rerouted(out_edges(G, v), u, FALSE, self_loops, 1)
  ELSE Rerouted(out_edges(G, v), u, FALSE, self_loops, 1)

\* The record written anew at every merge.
RecordContractionFresh(attrs, v, v_data) ==
  DictSet(attrs, "contraction", DictSet(EmptyDict, v, v_data))

\* H.node[u]['contraction'][v] = v_data, or a new record {v: v_data}.
RecordContraction(attrs, v, v_data) ==
  IF "contraction" \in DOMAIN attrs
  THEN [attrs EXCEPT !.contraction = DictSet(@, v, v_data)]
  ELSE DictSet(attrs, "contraction", DictSet(EmptyDict, v, v_data))

\* contracted_nodes with G.remove_node(v) for H.remove_node(v).
contracted_nodes_in_place(heap, g, u, v, self_loops) ==
  LET G == heap[g]
      heap1 == copy(heap, g)
      h == Len(heap1)
      new_edges == NewEdges(G, u, v, self_loops)
      v_data == heap1[h].node[v]
      heap2 == [heap1 EXCEPT ![g] = remove_node(@, v)]
      heap3 == [heap2 EXCEPT ![h] = add_edges_from(@, new_edges)]
  IN IF u \notin NodesOf(heap3[h])
     THEN [status |-> "KeyError", heap |-> heap, ret |-> 0]
     ELSE [status |-> "ok",
           heap |-> [heap3 EXCEPT ![h].node[u] = RecordContraction(@, v, v_data)],
           ret |-> h]

\* contracted_nodes(G, u, v, self_loops) for the graph object at g and a
\* node v of G.  The result is [status, heap, ret]: the heap after the call
\* and the place of the returned graph in it.  H.node[u] raises KeyError
\* when H is left without u.
contracted_nodes(heap, g, u, v, self_loops) ==
  LET G == heap[g]
      heap1 == copy(heap, g)
      h == Len(heap1)
      new_edges == NewEdges(G, u, v, self_loops)
      v_data == heap1[h].node[v]
      heap2 == [heap1 EXCEPT ![h] = remove_node(@, v)]
      heap3 == [heap2 EXCEPT ![h] = add_edges_from(@, new_edges)]
  IN IF u \notin NodesOf(heap3[h])
     THEN [status |-> "KeyError", heap |-> heap, ret |-> 0]
     ELSE [status |-> "ok",
           heap |-> [heap3 EXCEPT ![h].node[u] = RecordContraction(@, v, v_data)],
           ret |-> h]

\* contracted_edge with the endpoints swapped in the edge test.
contracted_edge_swapped(heap, g, edge, self_loops) ==
  IF ~has_edge(heap[g], edge[2], edge[1])
  THEN [status |-> "ValueError", heap |-> heap, ret |-> 0]
  ELSE contracted_nodes(heap, g, edge[1], edge[2], self_loops)

\* contracted_edge(G, edge, self_loops) for the graph object at g.
contracted_edge(heap, g, edge, self_loops) ==
  IF ~has_edge(heap[g], edge[1], edge[2])
  THEN [status |-> "ValueError", heap |-> heap, ret |-> 0]
  ELSE contracted_nodes(heap, g, edge[1], edge[2], self_loops)

(***************************************************************************)
(* The callers' inputs.                                                    *)
(***************************************************************************)

\* The subsets of S with at most k elements.
RECURSIVE SubsetsUpTo(_, _)
SubsetsUpTo(S, k) ==
  IF k = 0 THEN {{}}
  ELSE LET smaller == SubsetsUpTo(S, k - 1)
       IN smaller \cup {T \cup {x} : T \in smaller, x \in S}

\* Edge attribute dictionaries: none, or a weight other than the default.
EdgeDatas == {EmptyDict} \cup {[weight |-> w] : w \in 2..MaxWeight}

\* The places an edge can take in a graph over ns: a pair of nodes (once
\* for an undirected graph) and, in a multigraph, a key.
EdgeSlots(ns, directed, multigraph) ==
  {s \in ns \X ns \X (IF multigraph THEN 0..(MaxEdges - 1) ELSE {0}) :
     directed \/ s[1] <= s[2]}

\* Keys are given out from 0 on.
KeysDense(slots) ==
  \A s \in slots : s[3] > 0 => <<s[1], s[2], s[3] - 1>> \in slots

\* The graph of the given class over ns with node attributes attr and an
\* edge with data d[s] in every slot s.
BuildGraph(ns, directed, multigraph, attr, slots, d) ==
  LET G0 == [directed |-> directed, multigraph |-> multigraph, ntype |-> "int",
             node |-> [n \in ns |-> attr[n]], edges |-> {}]
  IN [G0 EXCEPT !.edges = UNION {Orient(G0, s[1], s[2], s[3], d[s]) : s \in slots}]

\* Node attribute dictionaries of the caller's graph: a colour per node.
NodeAttrs(ns) == [n \in ns |-> [color |-> n]]

\* The caller's graphs: every class, 1 to MaxNodes nodes, at most MaxEdges
\* edges, self-loops and (in a multigraph) parallel edges among them.
InitGraphs ==
  UNION {UNION {UNION {
    {BuildGraph(0..(n - 1), directed, multigraph, NodeAttrs(0..(n - 1)), slots, d) :
       d \in [slots -> EdgeDatas]} :
    slots \in {t \in SubsetsUpTo(EdgeSlots(0..(n - 1), directed, multigraph),
                                 MaxEdges) : KeysDense(t)}} :
    directed \in BOOLEAN, multigraph \in BOOLEAN} :
    n \in 1..MaxNodes}

\* Blocks over the node identifiers; an identifier need not be a node of
\* the graph the partition is used with.
Blocks == (SUBSET Nodes) \ {{}}

\* Partitions as the caller may pass them: lists of at most MaxBlocks
\* blocks, valid or not.
Partitions == UNION {[1..k -> Blocks] : k \in 0..MaxBlocks}

GraphClasses == {GraphOfClass(d, m) : d \in BOOLEAN, m \in BOOLEAN}

\* The equivalence relations on a set, each as its set of related pairs.
EquivalenceRelations(S) ==
  {{p \in S \X S : f[p[1]] = f[p[2]]} : f \in [S -> S]}

\* The orderings of a finite set, as sequences.
Orderings(S) ==
  {q \in [1..Cardinality(S) -> S] : \A i, j \in DOMAIN q : q[i] = q[j] => i = j}

\* Partitions whose blocks are pairwise disjoint.
DisjointPartitions ==
  {P \in Partitions : \A i, j \in DOMAIN P : i # j => P[i] \cap P[j] = {}}

\* The caller's graphs with MaxNodes nodes, fewer than MaxEdges edges and
\* no edge attributes.
PlainGraphs ==
  {G \in InitGraphs : /\ Cardinality(NodesOf(G)) = MaxNodes
                      /\ number_of_edges(G) < MaxEdges
                      /\ \A e \in G.edges : e.data = EmptyDict}

(***************************************************************************)
(* The state machine: a heap of graph objects, heap[1] the caller's        *)
(* graph, and the log of the calls made, each with its arguments, how it   *)
(* ended and the place in the heap of the graph it returned.               *)
(***************************************************************************)
VARIABLES heap, log

vars == <<heap, log>>

\* The caller holds one of the graphs Gs and has made no call.
InitWith(Gs) ==
  /\ heap \in {<<G>> : G \in Gs}
  /\ log = << >>

\* The graph objects a further call can be made on.
Callable == {g \in DOMAIN heap : heap[g].ntype = "int"}

\* mergeNodes: contracted_nodes(heap[g], u, v, self_loops).
MergeNodes ==
  /\ Len(log) < MaxCalls
  /\ \E g \in Callable : \E u, v \in NodesOf(heap[g]) : \E self_loops \in BOOLEAN :
       LET r == contracted_nodes(heap, g, u, v, self_loops)
       IN /\ heap' = r.heap
          /\ log' = Append(log, [op |-> "mergeNodes", g |-> g, u |-> u, v |-> v,
                                 self_loops |-> self_loops, status |-> r.status,
                                 ret |-> r.ret])

\* contractEdge: contracted_edge(heap[g], (u, v), self_loops).
ContractEdge ==
  /\ Len(log) < MaxCalls
  /\ \E g \in Callable : \E u, v \in Nodes : \E self_loops \in BOOLEAN :
       LET r == contracted_edge(heap, g, <<u, v>>, self_loops)
       IN /\ heap' = r.heap
          /\ log' = Append(log, [op |-> "contractEdge", g |-> g, u |-> u, v |-> v,
                                 self_loops |-> self_loops, status |-> r.status,
                                 ret |-> r.ret])

\* The heap and the log after a quotient_graph or blockmodel call with
\* result r: the graph returned is a new object.
Returned(r, call) ==
  /\ heap' = IF r.status = "ok" THEN Append(heap, r.graph) ELSE heap
  /\ log' = Append(log, [call EXCEPT !.status = r.status,
                                     !.ret = IF r.status = "ok"
                                             THEN Len(heap) + 1 ELSE 0])

\* The optional arguments of quotient_graph all left out.
DefaultArgs ==
  [edge_relation |-> "None", node_data |-> "None", edge_data |-> "None",
   create_using |-> NoGraph]

AllArgs ==
  [edge_relation : EdgeRelationArgs, node_data : NodeDataArgs,
   edge_data : EdgeDataArgs, create_using : GraphClasses \cup {NoGraph}]

\* quotient with an explicit list of blocks.  The optional arguments are
\* read only after the partition has passed line 225, so they are varied
\* only with partitions that pass it.
Quotient(partitions, args) ==
  /\ Len(log) < MaxCalls
  /\ \E g \in Callable : \E partition \in partitions :
     \E a \in args, relabel \in BOOLEAN :
       /\ PartitionInvalid(heap[g], partition) => a = DefaultArgs /\ ~relabel
       /\ Returned(quotient_graph(heap[g], partition, a.edge_relation,
                                  a.node_data, a.edge_data, relabel,
                                  a.create_using),
                   [op |-> "quotient", g |-> g, partition |-> partition,
                    callable |-> FALSE, args |-> a, relabel |-> relabel,
                    status |-> "", ret |-> 0])

\* quotient with a callable: the partition is the set equivalence_classes
\* returns, listed in the order the set happens to iterate in.
QuotientByRelation ==
  /\ Len(log) < MaxCalls
  /\ \E g \in Callable : \E relation \in EquivalenceRelations(NodesOf(heap[g])) :
     \E partition \in Orderings(equivalence_classes(SortedSeq(NodesOf(heap[g])),
                                                    relation)) :
     \E relabel \in BOOLEAN :
       Returned(quotient_graph(heap[g], partition, "None", "None", "None",
                               relabel, NoGraph),
                [op |-> "quotient", g |-> g, partition |-> partition,
                 callable |-> TRUE, args |-> DefaultArgs, relabel |-> relabel,
                 status |-> "", ret |-> 0])

\* blockModel.
BlockModel(partitions) ==
  /\ Len(log) < MaxCalls
  /\ \E g \in Callable : \E partition \in partitions : \E multigraph \in BOOLEAN :
       Returned(blockmodel(heap[g], partition, multigraph),
                [op |-> "blockModel", g |-> g, partition |-> partition,
                 callable |-> FALSE, multigraph |-> multigraph,
                 status |-> "", ret |-> 0])

\* classes: equivalence_classes(iterable, relation) on its own.
Classes ==
  /\ log = << >>
  /\ \E iterable \in UNION {[1..n -> Nodes] : n \in 0..MaxLen} :
     \E relation \in EquivalenceRelations(Nodes) :
       /\ log' = <<[op |-> "classes", iterable |-> iterable, relation |-> relation,
                    result |-> equivalence_classes(iterable, relation)]>>
       /\ UNCHANGED heap

\* Chains of calls of every operation, each on the caller's graph or on a
\* graph an earlier call returned.
Init == InitWith(PlainGraphs)

Next ==
  \/ MergeNodes
  \/ ContractEdge
  \/ Quotient(DisjointPartitions, {DefaultArgs})
  \/ QuotientByRelation
  \/ BlockModel(DisjointPartitions)

Spec == Init /\ [][Next]_vars

\* Chains of contractions, from the caller's graphs without edge
\* attributes.
InitM == InitWith({G \in InitGraphs : \A e \in G.edges : e.data = EmptyDict})

NextM ==
  \/ MergeNodes
  \/ ContractEdge

SpecM == InitM /\ [][NextM]_vars

\* One quotient or blockModel call on the caller's graph, over all the
\* argument values.
InitQ == InitWith(InitGraphs)

QuotientOnce == log = << >> /\ Quotient(Partitions, AllArgs)

QuotientByRelationOnce == log = << >> /\ QuotientByRelation

BlockModelOnce == log = << >> /\ BlockModel(Partitions)

NextQ ==
  \/ QuotientOnce
  \/ QuotientByRelationOnce
  \/ BlockModelOnce

SpecQ == InitQ /\ [][NextQ]_vars

\* One equivalence_classes call.
InitEq ==
  /\ heap = << >>
  /\ log = << >>

NextEq == Classes

SpecEq == InitEq /\ [][NextEq]_vars

\* The last call.
Last == log[Len(log)]

(***************************************************************************)
(* Properties                                                              *)
(***************************************************************************)

\* A quotient or blockModel call given an explicit list of blocks.
ExplicitCall(c) == c.op \in {"quotient", "blockModel"} /\ ~c.callable

\* The number of blocks of P that contain v.
BlocksWith(P, v) == Cardinality({i \in DOMAIN P : v \in P[i]})

\* C1: quotient(G, P) with an explicit P fails with PartitionInvalid, and
\* returns no graph, whenever some node of G is in no block or in more than
\* one block of P; when every node of G is in exactly one block it does not
\* fail with PartitionInvalid.
C1_PartitionValidated ==
  \A k \in DOMAIN log :
    ExplicitCall(log[k]) =>
      LET G == heap[log[k].g]
          P == log[k].partition
          bad == \E v \in NodesOf(G) : BlocksWith(P, v) = 0 \/ BlocksWith(P, v) > 1
      IN /\ bad => /\ log[k].status = "NetworkXException"
                   /\ log[k].ret = 0
                   /\ Len(heap) = 1
         /\ ~bad => log[k].status # "NetworkXException"

\* A partition with a node of the graph in two blocks has been rejected.
C1_Witness ==
  /\ log # << >>
  /\ ExplicitCall(Last)
  /\ Last.status = "NetworkXException"
  /\ \E v \in NodesOf(heap[Last.g]) : BlocksWith(Last.partition, v) = 2

\* C2: quotient(G, P) with an explicit P fails with PartitionInvalid
\* whenever the blocks of P are not pairwise disjoint or their union is not
\* exactly the node set of G, a block with an identifier that is no node of
\* G included.
C2_ExactCover ==
  \A k \in DOMAIN log :
    ExplicitCall(log[k]) =>
      LET G == heap[log[k].g]
          P == log[k].partition
          disjoint == \A i, j \in DOMAIN P : i # j => P[i] \cap P[j] = {}
          covers == UNION {P[i] : i \in DOMAIN P} = NodesOf(G)
      IN ~(disjoint /\ covers) => log[k].status = "NetworkXException"

\* C3: for distinct nodes u, v of G, mergeNodes(G, u, v, selfLoops) returns
\* a graph with one node fewer than G, without v and with u.
C3_OneNodeFewer ==
  \A k \in DOMAIN log :
    (log[k].op = "mergeNodes" /\ log[k].u # log[k].v) =>
      /\ log[k].status = "ok"
      /\ LET G == heap[log[k].g]
             H == heap[log[k].ret]
         IN /\ Cardinality(NodesOf(H)) = Cardinality(NodesOf(G)) - 1
            /\ log[k].v \notin NodesOf(H)
            /\ log[k].u \in NodesOf(H)

\* (u, v) is an edge of G: from u to v in a directed graph, between them
\* in an undirected one.
IsEdge(G, u, v) ==
  \E e \in G.edges : \/ e.u = u /\ e.v = v
                     \/ ~G.directed /\ e.u = v /\ e.v = u

\* The heap before call k.
HeapBefore(k) ==
  IF heap = << >> THEN heap
  ELSE SubSeq(heap, 1, 1 + Cardinality({j \in 1..(k - 1) : log[j].status = "ok"}))

\* C4: contractEdge(G, (u, v), selfLoops) fails with EdgeNotFound, and
\* returns no graph, exactly when (u, v) is not an edge of G (from u to v
\* when G is directed); when it is an edge the call ends as
\* mergeNodes(G, u, v, selfLoops) does.
C4_EdgeNotFound ==
  \A k \in DOMAIN log :
    log[k].op = "contractEdge" =>
      LET c == log[k]
          G == heap[c.g]
          m == contracted_nodes(HeapBefore(k), c.g, c.u, c.v, c.self_loops)
      IN /\ c.status = "ValueError" <=> ~IsEdge(G, c.u, c.v)
         /\ c.status = "ValueError" => c.ret = 0
         /\ IsEdge(G, c.u, c.v) =>
              /\ c.status = m.status
              /\ c.ret = m.ret
              /\ c.status = "ok" => heap[c.ret] = m.heap[m.ret]

\* A contraction has been refused on a directed graph that has the edge
\* from v to u only.
C4_Witness ==
  /\ log # << >>
  /\ Last.op = "contractEdge"
  /\ Last.status = "ValueError"
  /\ heap[Last.g].directed
  /\ has_edge(heap[Last.g], Last.v, Last.u)
  /\ \E k \in DOMAIN log : log[k].op = "contractEdge" /\ log[k].status = "ok"

\* C5: no call of quotient, mergeNodes, contractEdge or blockModel, failed
\* ones and calls on returned graphs included, changes a graph that exists
\* when it is made: the caller's graph and every graph returned earlier
\* keep their nodes, edges and attributes.
C5_NoMutation ==
  [][\A g \in DOMAIN heap : g \in DOMAIN heap' /\ heap'[g] = heap[g]]_vars

\* A merge on a returned graph has extended a contraction record that the
\* graph it was made on carries too.
C5_Witness ==
  /\ Len(log) = 2
  /\ log[1].op = "mergeNodes" /\ log[1].status = "ok"
  /\ Last.op = "mergeNodes" /\ Last.status = "ok"
  /\ Last.g = log[1].ret /\ Last.u = log[1].u /\ Last.u # Last.v
  /\ "contraction" \in DOMAIN heap[Last.g].node[Last.u]
  /\ heap[Last.ret].node[Last.u].contraction # heap[Last.g].node[Last.u].contraction

\* C6: for an equivalence relation, classes(elements, relation) is a set of
\* non-empty blocks with every element in exactly one of them, whatever the
\* order of the elements and with repeated elements counted once.
C6_ClassesPartition ==
  \A k \in DOMAIN log :
    log[k].op = "classes" =>
      LET R == log[k].result
          elems == Range(log[k].iterable)
      IN /\ {} \notin R
         /\ UNION R = elems
         /\ \A x \in elems : Cardinality({b \in R : x \in b}) = 1

\* A repeated element and two classes, one with two elements.
C6_Witness ==
  /\ log # << >>
  /\ Last.op = "classes"
  /\ Cardinality(Range(Last.iterable)) < Len(Last.iterable)
  /\ Cardinality(Last.result) = 2
  /\ \E b \in Last.result : Cardinality(b) = 2

\* The node of the quotient graph of call c that stands for block i of its
\* partition.
HNode(c, i) ==
  IF c.op = "blockModel" \/ c.relabel THEN i - 1 ELSE c.partition[i]

\* The edges of G that go from block b to block c.
EdgesFromTo(G, b, c) == {e \in G.edges : e.u \in b /\ e.v \in c}

\* The edges of G counted between the blocks b and c in a quotient graph
\* of the given direction: from b to c, and for an undirected quotient of
\* a directed G those from c to b as well.
CrossingFor(G, directedH, b, c) ==
  IF G.directed /\ ~directedH
  THEN EdgesFromTo(G, b, c) \cup EdgesFromTo(G, c, b)
  ELSE EdgesFromTo(G, b, c)

\* C7: in a multigraph quotient H built without edgeRelation, the edges of
\* H between two distinct blocks b, c are as many as the edges (u, v) of G
\* with u in b and v in c, parallel edges counted one by one, and carry the
\* attribute maps of those edges.
C7_MultigraphEdges ==
  \A k \in DOMAIN log :
    (/\ log[k].op \in {"quotient", "blockModel"}
     /\ log[k].status = "ok"
     /\ heap[log[k].ret].multigraph
     /\ log[k].op = "quotient" => log[k].args.edge_relation = "None") =>
      LET G == heap[log[k].g]
          H == heap[log[k].ret]
          P == log[k].partition
      IN \A i, j \in DOMAIN P :
           P[i] # P[j] =>
             LET HE == {e \in H.edges : e.u = HNode(log[k], i) /\ e.v = HNode(log[k], j)}
                 GE == CrossingFor(G, H.directed, P[i], P[j])
             IN /\ Cardinality(HE) = Cardinality(GE)
                /\ \A d \in {e.data : e \in HE} \cup {e.data : e \in GE} :
                     Cardinality({f \in HE : f.data = d})
                       = Cardinality({f \in GE : f.data = d})

\* C8: in a simple quotient H built without edgeRelation and edgeDataFn,
\* two distinct blocks b, c are joined exactly when a node of b is adjacent
\* in G to a node of c, by one edge, whose weight is the sum of the weights
\* (1 when absent) of the edges of G crossing between b and c; no block is
\* joined to itself.
C8_SimpleEdges ==
  \A k \in DOMAIN log :
    (/\ log[k].op \in {"quotient", "blockModel"}
     /\ log[k].status = "ok"
     /\ ~heap[log[k].ret].multigraph
     /\ log[k].op = "quotient" => /\ log[k].args.edge_relation = "None"
                                  /\ log[k].args.edge_data = "None") =>
      LET G == heap[log[k].g]
          H == heap[log[k].ret]
          P == log[k].partition
      IN /\ \A e \in H.edges : e.u # e.v
         /\ \A i, j \in DOMAIN P :
              P[i] # P[j] =>
                LET HE == {e \in H.edges : e.u = HNode(log[k], i) /\ e.v = HNode(log[k], j)}
                    crossing == {e \in EdgesOnce(G) :
                                   \/ e.u \in P[i] /\ e.v \in P[j]
                                   \/ e.u \in P[j] /\ e.v \in P[i]}
                IN /\ HE # {} <=> CrossingFor(G, H.directed, P[i], P[j]) # {}
                   /\ Cardinality(HE) <= 1
                   /\ \A e \in HE : e.data = [weight |-> SumWeights(crossing)]

\* The end of an edge after v has been merged into u.
MergedEnd(x, u, v) == IF x = v THEN u ELSE x

\* The ends of an edge: a pair in a directed graph, a set otherwise.
Ends(G, x, y) == IF G.directed THEN <<x, y>> ELSE {x, y}

\* The edges mergeNodes(G, u, v, selfLoops) is to have, each edge of G
\* once: those not at v as they are, those at v with v replaced by u,
\* those that joined u and v dropped unless selfLoops.
MergedEdges(G, u, v, self_loops) ==
  {e \in EdgesOnce(G) : self_loops \/ {e.u, e.v} # {u, v}}

\* C9: for distinct nodes u, v of G the edges of mergeNodes(G, u, v,
\* selfLoops) are the edges of G not at v together with the edges at v with
\* v replaced by u; an edge that joined u and v is dropped when selfLoops
\* is false and is a self-loop on u when it is true.
C9_EdgesRerouted ==
  \A k \in DOMAIN log :
    (log[k].op = "mergeNodes" /\ log[k].u # log[k].v) =>
      /\ log[k].status = "ok"
      /\ LET c == log[k]
             G == heap[c.g]
             H == heap[c.ret]
             want == MergedEdges(G, c.u, c.v, c.self_loops)
             WantEnds(e) == Ends(G, MergedEnd(e.u, c.u, c.v), MergedEnd(e.v, c.u, c.v))
             HasEnds(e) == Ends(H, e.u, e.v)
         IN /\ {HasEnds(e) : e \in H.edges} = {WantEnds(e) : e \in want}
            /\ G.multigraph =>
                 \A e \in EdgesOnce(H) :
                   Cardinality({f \in EdgesOnce(H) : HasEnds(f) = HasEnds(e)})
                     = Cardinality({f \in want : WantEnds(f) = HasEnds(e)})

\* The contraction record of node u of graph G; empty when it has none.
ContractionOf(G, u) ==
  IF "contraction" \in DOMAIN G.node[u] THEN G.node[u].contraction ELSE EmptyDict

\* Call k is a merge of a node other than u into u that returned a graph.
MergeInto(k, u) ==
  /\ log[k].op = "mergeNodes" /\ log[k].status = "ok"
  /\ log[k].u = u /\ log[k].v # u

\* The calls 1..k are a chain of merges into u: the first on the caller's
\* graph, each other on the graph the one before returned, each absorbing
\* a different node.
MergeChain(k, u) ==
  /\ \A j \in 1..k : MergeInto(j, u)
  /\ log[1].g = 1
  /\ \A j \in 2..k : log[j].g = log[j - 1].ret
  /\ \A i, j \in 1..k : i # j => log[i].v # log[j].v

\* C10: after a chain of merges into the same node u, each on the graph the
\* one before returned and each absorbing a different node, the contraction
\* record of u has exactly the absorbed nodes as keys and maps each to the
\* attribute map it had in the graph its merge was made on.
C10_ContractionRecord ==
  \A k \in DOMAIN log : \A u \in Nodes :
    MergeChain(k, u) =>
      LET rec == ContractionOf(heap[log[k].ret], u)
      IN /\ DOMAIN rec = {log[j].v : j \in 1..k}
         /\ \A j \in 1..k : rec[log[j].v] = heap[log[j].g].node[log[j].v]

\* Two merges into the same node, the second absorbing a node whose own
\* attribute map differs from the first one's.
C10_Witness ==
  /\ Len(log) = 2
  /\ \E u \in Nodes :
       /\ MergeChain(2, u)
       /\ LET rec == ContractionOf(heap[log[2].ret], u)
          IN rec[log[1].v] # rec[log[2].v]

====
